---- MODULE Spec2Model ----
(***************************************************************************)
(* Model of the node_crunch coordinator (src/src/nc_server.rs):            *)
(* start_server's accept loop, the handle_node tasks it spawns, the two    *)
(* std::sync::Mutex values they share (quit, nc_server), and the worker    *)
(* processes that connect to it.                                           *)
(*                                                                         *)
(* Spec runs the coordinator against arbitrary peers, ClusterSpec adds     *)
(* workers that follow the client loop.                                    *)
(*                                                                         *)
(* Every await point, lock acquisition and capability call of the code is  *)
(* one step of the task that executes it; statements between two such      *)
(* points run in the same step.  The application behind the NC_Server      *)
(* trait is arbitrary: its calls return Ok or Err, with any value.  They   *)
(* do not panic, so neither mutex is ever poisoned and the QuitLock and    *)
(* ServerLock errors of the lock() calls cannot occur.                     *)
(***************************************************************************)
EXTENDS Naturals, Sequences, FiniteSets

\* ------------------------------------------------------------------ bounds
MaxConns   == 2   \* connections ever opened towards the coordinator
NumWorkers == 1   \* worker processes running the client loop
MaxPayload == 1   \* distinct payload values (opaque bytes)

Conns    == 1..MaxConns
Workers  == 1..NumWorkers
Payloads == 1..MaxPayload

\* ------------------------------------------------------------ vocabulary
Free     == 0                 \* a Mutex nobody holds
Acceptor == MaxConns + 1      \* the start_server task, as a lock holder
NoNode   == 0                 \* no node_id: nothing decoded, nothing passed
PeerNode == NumWorkers + 1    \* the node_id a peer outside the job presents
NoData   == 0

\* NC_NodeMessage (crate::nc_node) as the coordinator decodes it; "Garbage"
\* is a frame nc_decode_data rejects.
NodeNeedsData(n)   == [kind |-> "NodeNeedsData", node |-> n, data |-> NoData]
NodeHasData(n, d)  == [kind |-> "NodeHasData",   node |-> n, data |-> d]
Garbage            == [kind |-> "Garbage",       node |-> NoNode, data |-> NoData]
NoFrame            == [kind |-> "none",          node |-> NoNode, data |-> NoData]

\* NC_ServerMessage
ServerHasData(d)   == [kind |-> "ServerHasData",  data |-> d]
ServerFinished     == [kind |-> "ServerFinished", data |-> NoData]
NoReply            == [kind |-> "none",           data |-> NoData]

\* What a handle_node task has done: frames read (nc_receive_message calls),
\* calls of each capability, reply frames written, the arguments of its
\* capability call, what the call returned ("ok" with the bytes `out` for
\* prepare, "true"/"false" for process, "err"), and the flag as it stood
\* when the call was entered.
NoLog ==
    [reads |-> 0, prep |-> 0, proc |-> 0, writes |-> 0,
     node |-> NoNode, data |-> NoData, ret |-> "none", out |-> NoData,
     quitAtCall |-> FALSE]

VARIABLES
    apc,        \* start_server: where the accept loop stands
    aerr,       \* start_server: the NC_Error it returned, "none" otherwise
    quit,       \* the value inside quit: Arc<Mutex<bool>>
    quitLock,   \* holder of the quit mutex
    srvLock,    \* holder of the nc_server mutex
    srvState,   \* CoordinatorState: number of capability calls applied to it
    inCall,     \* guard counter: tasks inside prepare_/process_data
    finished,   \* process_data_from_node has returned Ok(true) at least once
    backlog,    \* connections established but not yet accepted (FIFO)
    nconn,      \* connections opened so far
    hpc,        \* per connection: where its handle_node task stands
    frame,      \* per connection: the frame the peer wrote
    hdata,      \* per connection: handle_node's local new_data
    called,     \* per connection: capability call made by its handler
    reply,      \* per connection: the frame handle_node wrote
    herr,       \* per connection: the NC_Error handle_node returned
    log,        \* per connection: what its handler has done so far
    wpc,        \* per worker: where its client loop stands
    wconn       \* per worker: its current connection

vars == <<apc, aerr, quit, quitLock, srvLock, srvState, inCall, finished,
          backlog, nconn, hpc, frame, hdata, called, reply, herr, log,
          wpc, wconn>>

srvVars  == <<quit, quitLock, srvLock, srvState, inCall, finished>>
accVars  == <<apc, aerr, backlog>>
connVars == <<hpc, frame, hdata, called, reply, herr, log>>
wrkVars  == <<wpc, wconn>>

\* ---------------------------------------------------------------- states
\* A handle_node task that has been spawned and has not returned.
Active == {"recv", "read_quit", "send_fin_q",
           "lock_srv_p", "in_prepare", "send_data",
           "lock_srv_r", "in_process", "lock_quit_w", "set_quit", "send_fin"}

\* handle_node is awaiting nc_receive_message or nc_send_message.
InNetIO == {"recv", "send_fin_q", "send_data", "send_fin"}

Terminal == {"done", "failed"}

\* The listener exists from a successful bind to the return of start_server.
Listening == apc \in {"test_quit", "accept"}
Returned  == apc \in {"ok", "err"}

Init ==
    /\ apc = "bind"
    /\ aerr = "none"
    /\ quit = FALSE
    /\ quitLock = Free
    /\ srvLock = Free
    /\ srvState = 0
    /\ inCall = 0
    /\ finished = FALSE
    /\ backlog = <<>>
    /\ nconn = 0
    /\ hpc = [c \in Conns |-> "unused"]
    /\ frame = [c \in Conns |-> NoFrame]
    /\ hdata = [c \in Conns |-> NoData]
    /\ called = [c \in Conns |-> "none"]
    /\ reply = [c \in Conns |-> NoReply]
    /\ herr = [c \in Conns |-> "none"]
    /\ log = [c \in Conns |-> NoLog]
    /\ wpc = [w \in Workers |-> "idle"]
    /\ wconn = [w \in Workers |-> 0]

\* ------------------------------------------------------------ start_server

\* TcpListener::bind(addr).await.map_err(TcpBind)?
Bind ==
    /\ apc = "bind"
    /\ apc' = "test_quit"
    /\ UNCHANGED <<aerr, backlog, srvVars, nconn, connVars, wrkVars>>

BindFail ==
    /\ apc = "bind"
    /\ apc' = "err"
    /\ aerr' = "TcpBind"
    /\ UNCHANGED <<backlog, srvVars, nconn, connVars, wrkVars>>

\* Dropping the TcpListener (start_server returns): connections still in the
\* accept queue are reset; accepted streams belong to the spawned tasks,
\* which are detached and keep running.
PcAfterListenerDropCancel(st) ==
    IF st = "queued" THEN "reset" ELSE IF st \in Active THEN "cancelled" ELSE st

PcAfterListenerDrop(st) ==
    IF st = "queued" THEN "reset" ELSE st

\* while !(*quit.lock()...?) : the guard is a temporary of the condition, so
\* the flag is read and the mutex released before the body or the exit runs
AcceptorTestQuit ==
    /\ apc = "test_quit"
    /\ quitLock = Free
    /\ IF quit
         THEN /\ apc' = "ok"
              /\ hpc' = [c \in Conns |-> PcAfterListenerDrop(hpc[c])]
              /\ backlog' = <<>>
         ELSE /\ apc' = "accept"
              /\ UNCHANGED <<hpc, backlog>>
    /\ UNCHANGED <<aerr, srvVars, nconn, frame, hdata, called, reply, herr,
                   log, wrkVars>>

\* socket.accept().await completes when a connection is pending
AcceptReadySerial ==
    /\ backlog # <<>>
    /\ \A c \in Conns : hpc[c] \notin Active

AcceptReady ==
    backlog # <<>>

\* let (stream, node) = socket.accept().await...?; tokio::spawn(handle_node(..))
Accept ==
    /\ apc = "accept"
    /\ AcceptReady
    /\ hpc' = [hpc EXCEPT ![Head(backlog)] = "recv"]
    /\ backlog' = Tail(backlog)
    /\ apc' = "test_quit"
    /\ UNCHANGED <<aerr, srvVars, nconn, frame, hdata, called, reply, herr,
                   log, wrkVars>>

\* socket.accept().await.map_err(SocketAccept)? : the error leaves start_server
AcceptFail ==
    /\ apc = "accept"
    /\ apc' = "err"
    /\ aerr' = "SocketAccept"
    /\ hpc' = [c \in Conns |-> PcAfterListenerDrop(hpc[c])]
    /\ backlog' = <<>>
    /\ UNCHANGED <<srvVars, nconn, frame, hdata, called, reply, herr, log,
                   wrkVars>>

AcceptorStep ==
    \/ Bind
    \/ BindFail
    \/ AcceptorTestQuit
    \/ Accept
    \/ AcceptFail

\* -------------------------------------------------------------- handle_node

\* handle_node returns Err(e): the spawned closure logs it and the task ends
Fail(c, e) ==
    /\ hpc' = [hpc EXCEPT ![c] = "failed"]
    /\ herr' = [herr EXCEPT ![c] = e]

\* match nc_decode_data(&buffer)? { NodeNeedsData(..) => .., NodeHasData(..) => .. }
AfterDecodeLenient(f) ==
    CASE f.kind = "NodeHasData" -> "lock_srv_r"
      [] OTHER -> "read_quit"

AfterDecode(f) ==
    CASE f.kind = "NodeNeedsData" -> "read_quit"
      [] f.kind = "NodeHasData" -> "lock_srv_r"
      [] OTHER -> "failed"

\* nc_receive_message(..).await?, then match nc_decode_data(&buffer)? { .. }
Recv(c) ==
    /\ hpc[c] = "recv"
    /\ hpc' = [hpc EXCEPT ![c] = AfterDecode(frame[c])]
    /\ herr' = [herr EXCEPT ![c] =
                   IF AfterDecode(frame[c]) = "failed" THEN "Deserialize" ELSE @]
    /\ log' = [log EXCEPT ![c].reads = @ + 1]
    /\ UNCHANGED <<accVars, srvVars, nconn, frame, hdata, called, reply, wrkVars>>

\* nc_receive_message fails (connection dropped, short frame)
RecvFail(c) ==
    /\ hpc[c] = "recv"
    /\ Fail(c, "IOError")
    /\ log' = [log EXCEPT ![c].reads = @ + 1]
    /\ UNCHANGED <<accVars, srvVars, nconn, frame, hdata, called, reply, wrkVars>>

\* The guard of `*quit.lock()?` is a temporary: dropped at the end of the let.
QuitGuardKept(c) == c

QuitGuardAfterRead(c) == Free

\* if quit { ServerFinished } else { prepare_data_for_node }
AfterReadQuitIgnored(q) == "lock_srv_p"

AfterReadQuit(q) == IF q THEN "send_fin_q" ELSE "lock_srv_p"

\* NodeNeedsData: let quit = *quit.lock()...?; if quit {..} else {..}
HandlerReadQuit(c) ==
    /\ hpc[c] = "read_quit"
    /\ quitLock = Free
    /\ quitLock' = QuitGuardAfterRead(c)
    /\ hpc' = [hpc EXCEPT ![c] = AfterReadQuit(quit)]
    /\ UNCHANGED <<accVars, quit, srvLock, srvState, inCall, finished, nconn,
                   frame, hdata, called, reply, herr, log, wrkVars>>

\* after the reply is written handle_node falls through to Ok(())
PcAfterSendLoop == "recv"

PcAfterSend == "done"

\* nc_send_message(&mut buf_writer, message).await? : one reply frame
Send(c, at, msg) ==
    /\ hpc[c] = at
    /\ reply' = [reply EXCEPT ![c] = msg]
    /\ hpc' = [hpc EXCEPT ![c] = PcAfterSend]
    /\ log' = [log EXCEPT ![c].writes = @ + 1]
    /\ UNCHANGED <<accVars, srvVars, nconn, frame, hdata, called, herr, wrkVars>>

\* nc_encode_data or nc_send_message fails: nothing reaches the peer
SendFail(c) ==
    /\ hpc[c] \in {"send_fin_q", "send_data", "send_fin"}
    /\ Fail(c, "IOError")
    /\ UNCHANGED <<accVars, srvVars, nconn, frame, hdata, called, reply, log,
                   wrkVars>>

\* quit was set: reply ServerFinished
SendFinishedOnRequest(c) == Send(c, "send_fin_q", ServerFinished)

\* Mutex::lock on nc_server returns when nobody holds the mutex
CanLockServerUnguarded == TRUE

CanLockServer == srvLock = Free

\* The MutexGuard of nc_server leaves scope when the block ends, by value or by `?`
ServerGuardLeakedOnError(c, ok) == IF ok THEN Free ELSE c

ServerGuardKept(c, ok) == c

ServerGuardAfterCall(c, ok) == Free

\* the node_id bound by the match arm is the one passed to the call
CallNodeDefault(f) == NoNode

CallNode(f) == f.node

\* the new_data bound by the NodeHasData arm is passed by reference
CallDataEmpty(f) == NoData

CallData(f) == f.data

\* nc_server.lock()...?; block_in_place(|| nc_server.<call>(..)) : enter the call
EnterCall(c, at, in, name) ==
    /\ hpc[c] = at
    /\ CanLockServer
    /\ srvLock' = c
    /\ inCall' = inCall + 1
    /\ srvState' = srvState + 1
    /\ called' = [called EXCEPT ![c] = name]
    /\ hpc' = [hpc EXCEPT ![c] = in]
    /\ log' = [log EXCEPT ![c] =
                 [@ EXCEPT !.prep = IF name = "prepare" THEN @ + 1 ELSE @,
                           !.proc = IF name = "process" THEN @ + 1 ELSE @,
                           !.node = CallNode(frame[c]),
                           !.data = CallData(frame[c]),
                           !.quitAtCall = quit]]
    /\ UNCHANGED <<accVars, quit, quitLock, finished, nconn, frame, hdata,
                   reply, herr, wrkVars>>

\* `?` on the mapped error: handle_node returns, the call is not repeated
PcAfterCallErrRetry(in) ==
    IF in = "in_prepare" THEN "lock_srv_p" ELSE "lock_srv_r"

PcAfterCallErr(in) == "failed"

\* the call returned Err(e): map_err(..)? leaves handle_node
CallErr(c, in, e) ==
    /\ hpc[c] = in
    /\ inCall' = inCall - 1
    /\ srvLock' = ServerGuardAfterCall(c, FALSE)
    /\ hpc' = [hpc EXCEPT ![c] = PcAfterCallErr(in)]
    /\ herr' = [herr EXCEPT ![c] = e]
    /\ log' = [log EXCEPT ![c].ret = "err"]
    /\ UNCHANGED <<accVars, quit, quitLock, srvState, finished, nconn, frame,
                   hdata, called, reply, wrkVars>>

EnterPrepare(c) == EnterCall(c, "lock_srv_p", "in_prepare", "prepare")

\* prepare_data_for_node(node_id) returned Ok(d)
PrepareOk(c, d) ==
    /\ hpc[c] = "in_prepare"
    /\ inCall' = inCall - 1
    /\ srvLock' = ServerGuardAfterCall(c, TRUE)
    /\ hdata' = [hdata EXCEPT ![c] = d]
    /\ hpc' = [hpc EXCEPT ![c] = "send_data"]
    /\ log' = [log EXCEPT ![c] = [@ EXCEPT !.ret = "ok", !.out = d]]
    /\ UNCHANGED <<accVars, quit, quitLock, srvState, finished, nconn, frame,
                   called, reply, herr, wrkVars>>

PrepareErr(c) == CallErr(c, "in_prepare", "ServerPrepare")

SendData(c) == Send(c, "send_data", ServerHasData(hdata[c]))

EnterProcess(c) == EnterCall(c, "lock_srv_r", "in_process", "process")

\* if finished { set quit, reply ServerFinished }  -- no else branch
AfterProcessAlways(fin) == "lock_quit_w"

AfterProcess(fin) == IF fin THEN "lock_quit_w" ELSE "done"

\* process_data_from_node(node_id, &new_data) returned Ok(fin); if finished {..}
ProcessOk(c, fin) ==
    /\ hpc[c] = "in_process"
    /\ inCall' = inCall - 1
    /\ srvLock' = ServerGuardAfterCall(c, TRUE)
    /\ finished' = (finished \/ fin)
    /\ hpc' = [hpc EXCEPT ![c] = AfterProcess(fin)]
    /\ log' = [log EXCEPT ![c].ret = IF fin THEN "true" ELSE "false"]
    /\ UNCHANGED <<accVars, quit, quitLock, srvState, nconn, frame, hdata,
                   called, reply, herr, wrkVars>>

ProcessErr(c) == CallErr(c, "in_process", "ServerProcess")

\* let mut quit = quit.lock()...?;
HandlerLockQuitW(c) ==
    /\ hpc[c] = "lock_quit_w"
    /\ quitLock = Free
    /\ quitLock' = c
    /\ hpc' = [hpc EXCEPT ![c] = "set_quit"]
    /\ UNCHANGED <<accVars, quit, srvLock, srvState, inCall, finished, nconn,
                   frame, hdata, called, reply, herr, log, wrkVars>>

\* the value stored by `*quit = true;`
QuitToggled(q) == ~q

QuitNotStored(q) == q

QuitWritten(q) == TRUE

\* *quit = true; } -- the guard is dropped at the end of the block
SetQuit(c) ==
    /\ hpc[c] = "set_quit"
    /\ quitLock = c
    /\ quit' = QuitWritten(quit)
    /\ quitLock' = Free
    /\ hpc' = [hpc EXCEPT ![c] = "send_fin"]
    /\ UNCHANGED <<accVars, srvLock, srvState, inCall, finished, nconn,
                   frame, hdata, called, reply, herr, log, wrkVars>>

SendFinishedOnSubmit(c) == Send(c, "send_fin", ServerFinished)

HandlerStep(c) ==
    \/ Recv(c)
    \/ RecvFail(c)
    \/ HandlerReadQuit(c)
    \/ SendFinishedOnRequest(c)
    \/ EnterPrepare(c)
    \/ \E d \in Payloads : PrepareOk(c, d)
    \/ PrepareErr(c)
    \/ SendData(c)
    \/ EnterProcess(c)
    \/ \E fin \in BOOLEAN : ProcessOk(c, fin)
    \/ ProcessErr(c)
    \/ HandlerLockQuitW(c)
    \/ SetQuit(c)
    \/ SendFinishedOnSubmit(c)
    \/ SendFail(c)

\* ------------------------------------------------------------------ workers

\* TcpStream::connect succeeds while the listener exists; the request frame
\* is written right after, before the coordinator accepts.
OpenConn(f) ==
    /\ Listening
    /\ nconn < MaxConns
    /\ nconn' = nconn + 1
    /\ hpc' = [hpc EXCEPT ![nconn + 1] = "queued"]
    /\ frame' = [frame EXCEPT ![nconn + 1] = f]
    /\ backlog' = Append(backlog, nconn + 1)
    /\ UNCHANGED <<apc, aerr, srvVars, hdata, called, reply, herr, log>>

\* client loop: connect, send RequestWork(workerId)
WorkerRequest(w) ==
    /\ wpc[w] = "idle"
    /\ OpenConn(NodeNeedsData(w))
    /\ wpc' = [wpc EXCEPT ![w] = "wait_work"]
    /\ wconn' = [wconn EXCEPT ![w] = nconn + 1]

\* processWork(payload) succeeded: connect, send SubmitResult(workerId, result)
WorkerSubmit(w, r) ==
    /\ wpc[w] = "working"
    /\ OpenConn(NodeHasData(w, r))
    /\ wpc' = [wpc EXCEPT ![w] = "wait_ack"]
    /\ wconn' = [wconn EXCEPT ![w] = nconn + 1]

\* connect after start_server returned: nobody listens
WorkerRefused(w) ==
    /\ wpc[w] \in {"idle", "working"}
    /\ Returned
    /\ wpc' = [wpc EXCEPT ![w] = "refused"]
    /\ UNCHANGED <<accVars, srvVars, nconn, connVars, wconn>>

\* read the reply: JobFinished ends the loop with success, HasWork starts the
\* processing, a connection closed without a reply starts the next iteration
WorkerRead(w) ==
    /\ wpc[w] \in {"wait_work", "wait_ack"}
    /\ hpc[wconn[w]] \in Terminal \cup {"reset"}
    /\ LET c == wconn[w] IN
       CASE hpc[c] = "reset" ->
              wpc' = [wpc EXCEPT ![w] = "refused"]
         [] hpc[c] # "reset" /\ reply[c].kind = "ServerFinished" ->
              wpc' = [wpc EXCEPT ![w] = "exited"]
         [] hpc[c] # "reset" /\ reply[c].kind = "ServerHasData" ->
              wpc' = [wpc EXCEPT ![w] = "working"]
         [] OTHER ->
              wpc' = [wpc EXCEPT ![w] = "idle"]
    /\ UNCHANGED <<accVars, srvVars, nconn, connVars, wconn>>

WorkerStep(w) ==
    \/ WorkerRequest(w)
    \/ \E r \in Payloads : WorkerSubmit(w, r)
    \/ WorkerRefused(w)
    \/ WorkerRead(w)

\* Any other peer may connect and write any frame: a node whose client loop
\* is not followed here, or a peer whose bytes do not decode.
PeerFrames ==
    {Garbage, NodeNeedsData(PeerNode)} \cup {NodeHasData(PeerNode, d) : d \in Payloads}

PeerConnect(f) ==
    /\ OpenConn(f)
    /\ UNCHANGED wrkVars

\* ------------------------------------------------------------ specification

\* The coordinator against arbitrary peers: whatever frames arrive, in
\* whatever order.
Next ==
    \/ AcceptorStep
    \/ \E c \in Conns : HandlerStep(c)
    \/ \E f \in PeerFrames : PeerConnect(f)

Spec == Init /\ [][Next]_vars

\* tokio polls every spawned task that can make progress; a capability call
\* that was entered returns.
FairSpec ==
    /\ Spec
    /\ \A c \in Conns : WF_vars(HandlerStep(c))

\* The coordinator with, among its peers, workers that follow the client loop.
ClusterNext ==
    \/ Next
    \/ \E w \in Workers : WorkerStep(w)

ClusterSpec == Init /\ [][ClusterNext]_vars

TypeOK ==
    /\ apc \in {"bind", "test_quit", "accept", "ok", "err"}
    /\ aerr \in {"none", "TcpBind", "SocketAccept"}
    /\ quit \in BOOLEAN
    /\ quitLock \in {Free, Acceptor} \cup Conns
    /\ srvLock \in {Free} \cup Conns
    /\ srvState \in 0..MaxConns
    /\ inCall \in 0..MaxConns
    /\ finished \in BOOLEAN
    /\ nconn \in 0..MaxConns
    /\ \A c \in Conns : hpc[c] \in Active \cup Terminal \cup {"unused", "queued", "reset"}
    /\ \A w \in Workers : wpc[w] \in {"idle", "wait_work", "working", "wait_ack", "exited", "refused"}

\* ------------------------------------------------------------------ claims

\* C1: mutual exclusion on CoordinatorState. The guard counter, incremented
\* on entry to prepare_data_for_node / process_data_from_node and decremented
\* on exit, never exceeds 1, however many handlers run.
C1_MutualExclusion ==
    inCall <= 1

\* One handler is inside a capability call while another waits for the mutex.
C1_Witness ==
    /\ inCall = 1
    /\ \E c \in Conns : hpc[c] \in {"lock_srv_p", "lock_srv_r"}

\* C2 (as claimed): once process_data_from_node has returned true, no handler
\* enters prepare_data_for_node and no handler sends ServerHasData.
C2_NoWorkAfterFinished ==
    [][finished =>
         \A c \in Conns :
            /\ called'[c] = "prepare" => called[c] = "prepare"
            /\ reply'[c].kind = "ServerHasData" => reply[c].kind = "ServerHasData"
      ]_vars

\* C3 (as claimed): once quit is true the accept loop accepts no connection
\* and spawns no handler.
C3_NoAcceptAfterQuit ==
    [][quit => \A c \in Conns : hpc[c] = "queued" => hpc'[c] # "recv"]_vars

\* C4 (as claimed): when the job has completed and the coordinator has left
\* its loop normally, no worker following the client loop is left without an
\* answer: none finds the coordinator gone when it connects or waits.
C4_NoWorkerLeftUnanswered ==
    (finished /\ apc = "ok") => \A w \in Workers : wpc[w] # "refused"

\* C5: connection isolation. The step in which a handler ends in an error
\* leaves the flag, the accept loop and every other connection as they were,
\* and the failed handler keeps no mutex; a handler that ended holds none.
C5_ConnectionIsolation ==
    /\ [](\A c \in Conns : hpc[c] \in Terminal => srvLock # c /\ quitLock # c)
    /\ [][\A c \in Conns :
            (hpc[c] \in Active /\ hpc'[c] = "failed") =>
               /\ quit' = quit
               /\ apc' = apc /\ aerr' = aerr /\ backlog' = backlog
               /\ srvLock' # c /\ quitLock' # c
               /\ \A d \in Conns \ {c} :
                     /\ hpc'[d] = hpc[d]
                     /\ reply'[d] = reply[d]
                     /\ herr'[d] = herr[d]
        ]_vars

\* One connection ended in an error, another one got its reply, and the
\* accept loop is still running.
C5_Witness ==
    /\ Listening
    /\ \E c, d \in Conns :
          /\ hpc[c] = "failed"
          /\ hpc[d] = "done"
          /\ reply[d].kind # "none"

\* C6: the ShutdownFlag starts false and no step resets it.
C6_QuitMonotonic ==
    /\ ~quit
    /\ [][quit => quit']_vars

\* The flag is true and a handler is about to store into it again.
C6_Witness ==
    /\ quit
    /\ \E c \in Conns : hpc[c] = "set_quit"

\* C7: a handler awaiting a network read or write holds neither mutex, and
\* the nc_server mutex is held only by a handler inside a capability call.
C7_NoLockAcrossIO ==
    \A c \in Conns :
       /\ hpc[c] \in InNetIO => srvLock # c /\ quitLock # c
       /\ srvLock = c => hpc[c] \in {"in_prepare", "in_process"}

\* A handler is writing the work it prepared while another handler already
\* holds the nc_server mutex.
C7_Witness ==
    \E c \in Conns :
       /\ hpc[c] = "send_data"
       /\ srvLock \in Conns \ {c}

C9_ReturnsOnlyOnBindOrQuit ==
    Returned => (aerr = "TcpBind" \/ quit)

\* A handler in flight can take a step, or waits for a mutex whose holder can.
CanProceed(c) ==
    \/ ENABLED HandlerStep(c)
    \/ /\ hpc[c] \in {"lock_srv_p", "lock_srv_r"}
       /\ srvLock \in Conns
       /\ ENABLED HandlerStep(srvLock)
    \/ /\ hpc[c] \in {"read_quit", "lock_quit_w"}
       /\ quitLock \in Conns
       /\ ENABLED HandlerStep(quitLock)

C11_FinishedOnRequestAfterQuit ==
    /\ [](\A c \in Conns :
            hpc[c] = "send_fin_q" =>
               /\ log[c].prep = 0 /\ log[c].proc = 0
               /\ srvLock # c /\ quitLock # c)
    /\ [][\A c \in Conns :
            /\ (hpc[c] = "read_quit" /\ quit /\ hpc'[c] # "read_quit") =>
                  /\ hpc'[c] = "send_fin_q"
                  /\ srvState' = srvState /\ quit' = quit /\ srvLock' = srvLock
            /\ (hpc[c] = "send_fin_q" /\ hpc'[c] # "send_fin_q") =>
                  /\ hpc'[c] = "failed" \/ reply'[c] = ServerFinished
                  /\ log'[c].prep = 0 /\ log'[c].proc = 0
                  /\ srvState' = srvState /\ quit' = quit /\ srvLock' = srvLock
        ]_vars

\* A RequestWork was answered with ServerFinished.
C11_Witness ==
    \E c \in Conns :
       /\ frame[c].kind = "NodeNeedsData"
       /\ hpc[c] = "done"
       /\ reply[c] = ServerFinished

\* C12: RequestWork before shutdown. A handler past the flag test calls
\* prepare_data_for_node once, with the node_id of its frame; a ServerHasData
\* is only ever sent after that call succeeded in the same handler and
\* carries the bytes the call returned.
C12_WorkOnRequest ==
    \A c \in Conns :
       /\ log[c].prep <= 1
       /\ hpc[c] = "lock_srv_p" => log[c].prep = 0
       /\ hpc[c] \in {"in_prepare", "send_data"} => log[c].prep = 1
       /\ log[c].prep = 1 =>
             /\ frame[c].kind = "NodeNeedsData"
             /\ log[c].node = frame[c].node
             /\ log[c].proc = 0
       /\ reply[c].kind = "ServerHasData" =>
             /\ log[c].prep = 1
             /\ log[c].ret = "ok"
             /\ reply[c].data = log[c].out
             /\ log[c].out \in Payloads

\* A RequestWork was answered with the work prepared for its node_id.
C12_Witness ==
    \E c \in Conns :
       /\ hpc[c] = "done"
       /\ reply[c].kind = "ServerHasData"
       /\ log[c].node = PeerNode

\* C13: SubmitResult replies. After process_data_from_node returned true the
\* handler sets the flag and then replies ServerFinished; after false it has
\* ended successfully without a reply frame, and the flag is left alone.
C13_SubmitReplies ==
    /\ [](\A c \in Conns :
            /\ log[c].ret = "false" =>
                  /\ hpc[c] = "done"
                  /\ reply[c] = NoReply /\ log[c].writes = 0
                  /\ herr[c] = "none"
            /\ log[c].ret = "true" =>
                  /\ hpc[c] \in {"lock_quit_w", "set_quit", "send_fin", "done", "failed"}
                  /\ hpc[c] \in {"send_fin", "done", "failed"} => quit
                  /\ hpc[c] = "done" => reply[c] = ServerFinished)
    /\ [][\A c \in Conns :
            (log[c].ret = "none" /\ log'[c].ret = "false") => quit' = quit]_vars

\* One SubmitResult ended without a reply, another was answered ServerFinished.
C13_Witness ==
    \E c, d \in Conns :
       /\ log[c].ret = "false" /\ hpc[c] = "done"
       /\ log[d].ret = "true" /\ hpc[d] = "done" /\ reply[d] = ServerFinished

\* C14: application error. A handler whose capability call returned an error
\* has ended with that error after exactly one call, wrote no reply, holds no
\* mutex, and the failing step left the flag alone; once failed it does nothing.
C14_ApplicationError ==
    /\ [](\A c \in Conns :
            /\ log[c].ret = "err" =>
                  /\ hpc[c] = "failed"
                  /\ herr[c] = (IF called[c] = "prepare" THEN "ServerPrepare"
                                                        ELSE "ServerProcess")
                  /\ log[c].prep + log[c].proc = 1
                  /\ reply[c] = NoReply /\ log[c].writes = 0
                  /\ srvLock # c /\ quitLock # c
            /\ herr[c] \in {"ServerPrepare", "ServerProcess"} => log[c].ret = "err")
    /\ [][\A c \in Conns :
            /\ (log[c].ret # "err" /\ log'[c].ret = "err") => quit' = quit
            /\ hpc[c] = "failed" =>
                  hpc'[c] = "failed" /\ log'[c] = log[c] /\ reply'[c] = reply[c]
        ]_vars

\* A prepare_data_for_node call returned an error.
C14_Witness ==
    \E c \in Conns : herr[c] = "ServerPrepare"

\* C15: decode failure. A handler whose frame does not decode ends with an
\* error right after the read: no capability call, no mutex, no reply, and
\* the failing step leaves CoordinatorState and the flag alone.
C15_DecodeFailure ==
    /\ [](\A c \in Conns :
            /\ (frame[c].kind = "Garbage" /\ hpc[c] \in (Active \cup Terminal) \ {"recv"}) =>
                  /\ hpc[c] = "failed"
                  /\ herr[c] \in {"Deserialize", "IOError"}
                  /\ log[c].prep = 0 /\ log[c].proc = 0
                  /\ reply[c] = NoReply /\ log[c].writes = 0
                  /\ srvLock # c /\ quitLock # c
            /\ herr[c] = "Deserialize" => frame[c].kind = "Garbage")
    /\ [][\A c \in Conns :
            (herr[c] = "none" /\ herr'[c] = "Deserialize") =>
               /\ srvState' = srvState /\ quit' = quit
               /\ srvLock' = srvLock /\ quitLock' = quitLock
               /\ inCall' = inCall
        ]_vars

\* A frame failed to decode after CoordinatorState had already been used.
C15_Witness ==
    /\ srvState > 0
    /\ \E c \in Conns : herr[c] = "Deserialize"

\* C16: one request/response pair per connection. A handler calls
\* nc_receive_message once, makes at most one capability call (never both
\* kinds) and writes at most one reply frame, after which it has ended.
C16_OnePairPerConnection ==
    \A c \in Conns :
       /\ log[c].reads <= 1
       /\ hpc[c] \in (Active \cup Terminal) \ {"recv"} => log[c].reads = 1
       /\ hpc[c] \in {"unused", "queued", "reset", "recv"} => log[c].reads = 0
       /\ log[c].prep + log[c].proc <= 1
       /\ log[c].writes <= 1
       /\ log[c].writes = 1 => hpc[c] = "done"

\* A handler ended after one read, one capability call and one reply.
C16_Witness ==
    \E c \in Conns :
       /\ hpc[c] = "done"
       /\ log[c].reads = 1
       /\ log[c].prep + log[c].proc = 1
       /\ log[c].writes = 1

\* C17 (as claimed): once quit is true the accept loop can leave without any
\* further connection: until start_server has returned, its next step (the
\* flag test or the completion of accept) is possible, or waits only for a
\* handler to release the quit mutex.
C17_LoopLeavesAfterQuit ==
    (quit /\ ~Returned) =>
       \/ ENABLED AcceptorTestQuit
       \/ ENABLED Accept
       \/ quitLock \in Conns

\* C18: ServerFinished implies shutdown. Whoever has been sent ServerFinished,
\* the flag is true; on the SubmitResult path it is already true when the
\* handler is about to write the reply.
C18_FinishedImpliesQuit ==
    \A c \in Conns :
       /\ reply[c].kind = "ServerFinished" => quit
       /\ hpc[c] \in {"send_fin", "send_fin_q"} => quit

\* ServerFinished went out on both paths.
C18_Witness ==
    \E c, d \in Conns :
       /\ frame[c].kind = "NodeNeedsData" /\ reply[c] = ServerFinished
       /\ frame[d].kind = "NodeHasData" /\ reply[d] = ServerFinished

\* A task is blocked in lock() on the given mutex.
WaitsForServerLock(c) == hpc[c] \in {"lock_srv_p", "lock_srv_r"}
WaitsForQuitLock(c)   == hpc[c] \in {"read_quit", "lock_quit_w"}

\* C19: no nested locking, no deadlock. No task holds both mutexes, a holder
\* of one never waits for the other, and whenever a task waits for a mutex
\* that is taken, its holder can take a step.
C19_NoNestedLocks ==
    /\ ~(srvLock # Free /\ srvLock = quitLock)
    /\ quitLock # Acceptor
    /\ \A c \in Conns :
          /\ srvLock = c => ~WaitsForQuitLock(c) /\ ~WaitsForServerLock(c)
          /\ quitLock = c => ~WaitsForServerLock(c) /\ ~WaitsForQuitLock(c)
    /\ (srvLock # Free /\ \E c \in Conns : WaitsForServerLock(c)) =>
          srvLock \in Conns /\ ENABLED HandlerStep(srvLock)
    /\ (quitLock # Free /\ (apc = "test_quit" \/ \E c \in Conns : WaitsForQuitLock(c))) =>
          quitLock \in Conns /\ ENABLED HandlerStep(quitLock)

\* The quit mutex is held while the accept loop and another handler want it.
C19_Witness ==
    /\ quitLock \in Conns
    /\ apc = "test_quit"
    /\ \E c \in Conns : WaitsForQuitLock(c) \/ WaitsForServerLock(c)

\* C20: SubmitResult is dispatched regardless of shutdown. A handler that
\* decoded NodeHasData never reads the flag; once past the mutex it has called
\* process_data_from_node exactly once, with the node_id and payload of its
\* frame, whatever the flag was.
C20_SubmitAlwaysDispatched ==
    \A c \in Conns :
       /\ log[c].proc <= 1
       /\ log[c].proc = 1 =>
             /\ frame[c].kind = "NodeHasData"
             /\ log[c].node = frame[c].node
             /\ log[c].data = frame[c].data
             /\ log[c].prep = 0
       /\ frame[c].kind = "NodeHasData" =>
             /\ hpc[c] \notin {"read_quit", "send_fin_q", "lock_srv_p", "in_prepare", "send_data"}
             /\ hpc[c] \in {"in_process", "lock_quit_w", "set_quit", "send_fin", "done"} =>
                   log[c].proc = 1

\* process_data_from_node was entered with the flag already true and
\* returned true again.
C20_Witness ==
    \E c \in Conns :
       /\ log[c].proc = 1
       /\ log[c].quitAtCall
       /\ log[c].ret = "true"

====
